---- MODULE Spec2Model ----
(***************************************************************************)
(* Onychomycosis Severity Index (OSI) grading engine of MycoScan v3.005,   *)
(* analysis/osi_grading.py: the score classifier get_osi_score and the     *)
(* grid analyzer OSIGridAnalyzer.analyze_grid_cells.                       *)
(*                                                                         *)
(* The engine keeps no state between calls, so a behaviour is one call:    *)
(* Init draws the arguments, one action per function applies it.           *)
(*   pc   : "called" (arguments bound, body not run) or "returned"         *)
(*   fn   : the function that is called                                    *)
(*   args : its arguments                                                  *)
(*   ret  : [exc, val]: the exception raised ("None" when it returns) and  *)
(*          the returned record                                            *)
(***************************************************************************)
EXTENDS Integers, Sequences, FiniteSets, TLC

VARIABLES pc, fn, args, ret

vars == <<pc, fn, args, ret>>

(***************************************************************************)
(* Python numbers.  A finite number is the exact rational n/d in lowest    *)
(* terms (an int has d = 1); the float specials are inf, -inf and nan.     *)
(* Floating-point rounding is not modelled: for the quotients the analyzer *)
(* forms (a / N * 100 with a, N pixel counts) the rounded value and the    *)
(* exact one fall in the same band of every comparison made below.         *)
(***************************************************************************)
RECURSIVE GCD(_, _)
GCD(a, b) == IF b = 0 THEN a ELSE GCD(b, a % b)

Abs(n) == IF n < 0 THEN -n ELSE n

Rat(n, d) ==
    LET g == GCD(Abs(n), d)
    IN  [k |-> "fin", n |-> n \div g, d |-> d \div g]

IntNum(i) == [k |-> "fin", n |-> i, d |-> 1]
PosInf == [k |-> "inf", n |-> 0, d |-> 1]
NegInf == [k |-> "ninf", n |-> 0, d |-> 1]
NaN == [k |-> "nan", n |-> 0, d |-> 1]

IsFinite(x) == x.k = "fin"

\* x < y as Python evaluates it: every comparison with nan is False.
Lt(x, y) ==
    IF x.k = "nan" \/ y.k = "nan" THEN FALSE
    ELSE IF x.k = "inf" \/ y.k = "ninf" THEN FALSE
    ELSE IF x.k = "ninf" \/ y.k = "inf" THEN TRUE
    ELSE x.n * y.d < y.n * x.d

\* x == y
EqNum(x, y) ==
    IF x.k = "nan" \/ y.k = "nan" THEN FALSE
    ELSE IF x.k # "fin" \/ y.k # "fin" THEN x.k = y.k
    ELSE x.n * y.d = y.n * x.d

\* x <= y
Le(x, y) == Lt(x, y) \/ EqNum(x, y)

\* The builtin min(a, b): b only when b < a, so a on a tie and on nan.
PyMin(a, b) == IF Lt(b, a) THEN b ELSE a

\* The builtin max(a, b): b only when b > a.
PyMax(a, b) == IF Lt(a, b) THEN b ELSE a

NoVal == [none |-> TRUE]
Return(v) == [exc |-> "None", val |-> v]
Raise(e) == [exc |-> e, val |-> NoVal]

\* PyInt rounding to the nearest integer (half up) instead of truncating.
PyInt_rounding(x) ==
    IF x.k = "nan" THEN Raise("ValueError")
    ELSE IF x.k # "fin" THEN Raise("OverflowError")
    ELSE Return((2 * x.n + x.d) \div (2 * x.d))

\* The builtin int(x): truncation toward zero; inf and nan raise.
PyInt(x) ==
    IF x.k = "nan" THEN Raise("ValueError")
    ELSE IF x.k # "fin" THEN Raise("OverflowError")
    ELSE Return(IF x.n >= 0 THEN x.n \div x.d ELSE -((-x.n) \div x.d))

IntMin(a, b) == IF b < a THEN b ELSE a
IntMax(a, b) == IF b > a THEN b ELSE a

(***************************************************************************)
(* get_osi_score                                                           *)
(***************************************************************************)
\* sanitize_area_percent with the upper clamp left out.
sanitize_area_percent_no_upper(area_percent) == PyMax(IntNum(0), area_percent)

\* sanitize_area_percent clamping at 99.
sanitize_area_percent_to_99(area_percent) ==
    PyMax(IntNum(0), PyMin(IntNum(99), area_percent))

\* line 171: max(0, min(100, float(area_percent)))
sanitize_area_percent(area_percent) ==
    PyMax(IntNum(0), PyMin(IntNum(100), area_percent))

\* sanitize_proximity_level clamping to 1..4.
sanitize_proximity_level_to_4(i) == IntMax(1, IntMin(4, i))

\* line 172: max(1, min(5, int(proximity_level))), given int()'s value
sanitize_proximity_level(i) == IntMax(1, IntMin(5, i))

\* area_score_of with the first band's upper end excluded (< 10 for <= 10).
area_score_of_open_band(area_percent) ==
    IF EqNum(area_percent, IntNum(0)) THEN 0
    ELSE IF Le(IntNum(1), area_percent) /\ Lt(area_percent, IntNum(10)) THEN 1
    ELSE IF Le(IntNum(11), area_percent) /\ Le(area_percent, IntNum(25)) THEN 2
    ELSE IF Le(IntNum(26), area_percent) /\ Le(area_percent, IntNum(50)) THEN 3
    ELSE IF Le(IntNum(51), area_percent) /\ Le(area_percent, IntNum(75)) THEN 4
    ELSE 5

\* area_score_of scoring percentages up to 10 as no involvement.
area_score_of_small_is_zero(area_percent) ==
    IF Le(area_percent, IntNum(10)) THEN 0
    ELSE IF Le(IntNum(11), area_percent) /\ Le(area_percent, IntNum(25)) THEN 2
    ELSE IF Le(IntNum(26), area_percent) /\ Le(area_percent, IntNum(50)) THEN 3
    ELSE IF Le(IntNum(51), area_percent) /\ Le(area_percent, IntNum(75)) THEN 4
    ELSE 5

\* lines 174-186: the area score A of the sanitized percentage
area_score_of(area_percent) ==
    IF EqNum(area_percent, IntNum(0)) THEN 0
    ELSE IF Le(IntNum(1), area_percent) /\ Le(area_percent, IntNum(10)) THEN 1
    ELSE IF Le(IntNum(11), area_percent) /\ Le(area_percent, IntNum(25)) THEN 2
    ELSE IF Le(IntNum(26), area_percent) /\ Le(area_percent, IntNum(50)) THEN 3
    ELSE IF Le(IntNum(51), area_percent) /\ Le(area_percent, IntNum(75)) THEN 4
    ELSE 5

\* total_score_of adding the two scores.
total_score_of_sum(area_score, proximity_score) == area_score + proximity_score

\* line 193
total_score_of(area_score, proximity_score) == area_score * proximity_score

\* severity_of with "Moderate" ending at 14.
severity_of_moderate_to_14(total_score) ==
    IF total_score = 0 THEN "Clinically Cured / No involvement"
    ELSE IF 1 <= total_score /\ total_score <= 5 THEN "Mild"
    ELSE IF 6 <= total_score /\ total_score <= 14 THEN "Moderate"
    ELSE "Severe"

\* lines 195-203
severity_of(total_score) ==
    IF total_score = 0 THEN "Clinically Cured / No involvement"
    ELSE IF 1 <= total_score /\ total_score <= 5 THEN "Mild"
    ELSE IF 6 <= total_score /\ total_score <= 15 THEN "Moderate"
    ELSE "Severe"

get_osi_score(area_percent, proximity_level) ==
    LET ap == sanitize_area_percent(area_percent)
        ip == PyInt(proximity_level)
    IN  IF ip.exc # "None" THEN Raise(ip.exc)
        ELSE
          LET pl == sanitize_proximity_level(ip.val)
              area_score == area_score_of(ap)
              proximity_score == pl
              total_score == total_score_of(area_score, proximity_score)
          IN  Return([area_score |-> area_score,
                      proximity_score |-> proximity_score,
                      total_osi_score |-> total_score,
                      severity |-> severity_of(total_score),
                      area_percent |-> ap,
                      proximity_level |-> pl])

(***************************************************************************)
(* SpecScore: one call of get_osi_score.  The percentage ranges over the   *)
(* multiples of 1/AreaDen in [-AreaOver, 100 + AreaOver], the level over   *)
(* the multiples of 1/ProxDen in [1 - ProxOver, 5 + ProxOver], and both    *)
(* over the float specials.                                                *)
(***************************************************************************)
AreaDen == 2
AreaOver == 50
ProxDen == 5
ProxOver == 4

Specials == {PosInf, NegInf, NaN}

AreaInputs ==
    {Rat(n, AreaDen) : n \in (-AreaOver * AreaDen) .. ((100 + AreaOver) * AreaDen)}
    \cup Specials

ProxInputs ==
    {Rat(n, ProxDen) : n \in ((1 - ProxOver) * ProxDen) .. ((5 + ProxOver) * ProxDen)}
    \cup Specials

InitScore ==
    /\ pc = "called"
    /\ fn = "get_osi_score"
    /\ args \in [area_percent : AreaInputs, proximity_level : ProxInputs]
    /\ ret = Raise("pending")

GetOsiScore ==
    /\ pc = "called"
    /\ fn = "get_osi_score"
    /\ ret' = get_osi_score(args.area_percent, args.proximity_level)
    /\ pc' = "returned"
    /\ UNCHANGED <<fn, args>>

NextScore == GetOsiScore

SpecScore == InitScore /\ [][NextScore]_vars

(***************************************************************************)
(* Properties of get_osi_score, checked under SpecScore.                   *)
(***************************************************************************)
ScoreDone == pc = "returned" /\ fn = "get_osi_score"
ScoreReturned == ScoreDone /\ ret.exc = "None"

Labels == {"Clinically Cured / No involvement", "Mild", "Moderate", "Severe"}

\* The band table of the area score: percentages lo..hi score A.
BandTable ==
    { [lo |-> 0, hi |-> 0, A |-> 0], [lo |-> 1, hi |-> 10, A |-> 1],
      [lo |-> 11, hi |-> 25, A |-> 2], [lo |-> 26, hi |-> 50, A |-> 3],
      [lo |-> 51, hi |-> 75, A |-> 4], [lo |-> 76, hi |-> 100, A |-> 5] }

InBand(x, b) == Le(IntNum(b.lo), x) /\ Le(x, IntNum(b.hi))

\* C1: every area_percent of [0,100] that lies in a band of the table
\* (0, 1-10, 11-25, 26-50, 51-75, 76-100; the band ends included, and the
\* fractional percentages inside a band too) gets that band's area_score, so
\* 0->0, 10->1, 11->2, 25->2, 26->3, 50->3, 51->4, 75->4, 76->5, 100->5.
C1_AreaScoreTable ==
    ScoreReturned =>
        /\ \A b \in BandTable :
              InBand(args.area_percent, b) => ret.val.area_score = b.A
        /\ \A e \in { <<0, 0>>, <<10, 1>>, <<11, 2>>, <<25, 2>>, <<26, 3>>,
                      <<50, 3>>, <<51, 4>>, <<75, 4>>, <<76, 5>>, <<100, 5>> } :
              args.area_percent = IntNum(e[1]) => ret.val.area_score = e[2]

C1_Witness ==
    /\ ScoreReturned
    /\ args.area_percent = IntNum(11)
    /\ ret.val.area_score = 2

\* C2: area_score is non-decreasing in area_percent: for the percentage a
\* of this call and every b of [0,100] with a <= b, at the same
\* proximity_level, area_score(a) <= area_score(b).
C2_AreaScoreMonotone ==
    ScoreReturned =>
        \A b \in AreaInputs :
            ( /\ Le(IntNum(0), args.area_percent)
              /\ Le(args.area_percent, b)
              /\ Le(b, IntNum(100)) )
            => ret.val.area_score
                 <= get_osi_score(b, args.proximity_level).val.area_score

\* C3: the returned total_osi_score is area_score * proximity_score and lies
\* in 0..25.
C3_TotalIsProduct ==
    ScoreReturned =>
        /\ ret.val.total_osi_score = ret.val.area_score * ret.val.proximity_score
        /\ ret.val.total_osi_score \in 0 .. 25

C3_Witness ==
    /\ ScoreReturned
    /\ ret.val.area_score = 5
    /\ ret.val.proximity_score = 5
    /\ ret.val.total_osi_score = 25

\* C4: severity is a step function of total_osi_score: 0 is "Clinically
\* Cured / No involvement", 1..5 "Mild", 6..15 "Moderate", 16..25 "Severe",
\* and no other label is returned.
C4_SeveritySteps ==
    ScoreReturned =>
        LET t == ret.val.total_osi_score
            s == ret.val.severity
        IN  /\ s \in Labels
            /\ (t = 0) <=> (s = "Clinically Cured / No involvement")
            /\ (t \in 1 .. 5) <=> (s = "Mild")
            /\ (t \in 6 .. 15) <=> (s = "Moderate")
            /\ (t \in 16 .. 25) <=> (s = "Severe")

C4_Witness ==
    /\ ScoreReturned
    /\ ret.val.total_osi_score = 15
    /\ ret.val.severity = "Moderate"

\* C5: for proximity_level 1, 2, 3, 4 or 5 and any area_percent the returned
\* proximity_score is the proximity_level, and so is the echoed
\* proximity_level field.
C5_ProximityVerbatim ==
    ScoreDone =>
        \A i \in 1 .. 5 :
            args.proximity_level = IntNum(i) =>
                /\ ret.exc = "None"
                /\ ret.val.proximity_score = i
                /\ ret.val.proximity_level = i

C5_Witness ==
    /\ ScoreReturned
    /\ args.proximity_level = IntNum(5)
    /\ args.area_percent = Rat(51, 2)
    /\ ret.val.proximity_score = 5

IsInteger(x) == IsFinite(x) /\ x.d = 1

\* C6: clamp idempotence: an area_percent above 100 gives the outcome of
\* area_percent = 100, one below 0 that of area_percent = 0, an integer
\* proximity_level below 1 that of level 1 and one above 5 that of level 5,
\* in every field.
C6_ClampIdempotent ==
    ScoreDone =>
        LET a == args.area_percent
            p == args.proximity_level
        IN  /\ Lt(IntNum(100), a) => ret = get_osi_score(IntNum(100), p)
            /\ Lt(a, IntNum(0)) => ret = get_osi_score(IntNum(0), p)
            /\ (IsInteger(p) /\ p.n < 1) => ret = get_osi_score(a, IntNum(1))
            /\ (IsInteger(p) /\ p.n > 5) => ret = get_osi_score(a, IntNum(5))

C6_Witness ==
    /\ ScoreReturned
    /\ args.area_percent = IntNum(150)
    /\ args.proximity_level = IntNum(9)
    /\ ret.val.area_percent = IntNum(100)
    /\ ret.val.proximity_level = 5
    /\ ret.val.total_osi_score = 25

\* C7: get_osi_score never fails to grade: for every numeric area_percent and
\* proximity_level it returns, without raising, a record with area_score in
\* 0..5, proximity_score in 1..5, total_osi_score in 0..25, one of the four
\* severity labels, area_percent in [0,100] and proximity_level in 1..5.
C7_NeverFailsToGrade ==
    ScoreDone =>
        /\ ret.exc = "None"
        /\ ret.val.area_score \in 0 .. 5
        /\ ret.val.proximity_score \in 1 .. 5
        /\ ret.val.total_osi_score \in 0 .. 25
        /\ ret.val.severity \in Labels
        /\ Le(IntNum(0), ret.val.area_percent)
        /\ Le(ret.val.area_percent, IntNum(100))
        /\ ret.val.proximity_level \in 1 .. 5

\* The level nearest to x clamped to [1,5] (either neighbour on a tie).
IsNearestLevel(l, x) ==
    LET c == PyMax(IntNum(1), PyMin(IntNum(5), x))
    IN  l \in 1 .. 5 /\ 2 * Abs(l * c.d - c.n) <= c.d

\* C8 as claimed: a non-integer proximity_level is scored as the integer of
\* 1..5 nearest to it (4.6 as 5, 1.6 as 2).
C8_RoundsToNearest ==
    (ScoreReturned /\ IsFinite(args.proximity_level)) =>
        IsNearestLevel(ret.val.proximity_score, args.proximity_level)

\* C8 as amended: a finite proximity_level is truncated toward zero and then
\* clamped to 1..5: every level below 2 is scored 1, every level from 5 up
\* is scored 5, and a level x in [2,5) is scored floor(x) (4.6 as 4).
C8_TruncatesThenClamps ==
    (ScoreDone /\ IsFinite(args.proximity_level)) =>
        LET x == args.proximity_level
            l == ret.val.proximity_score
        IN  /\ ret.exc = "None"
            /\ ret.val.proximity_level = l
            /\ IF Lt(x, IntNum(2)) THEN l = 1
               ELSE IF Le(IntNum(5), x) THEN l = 5
               ELSE Le(IntNum(l), x) /\ Lt(x, IntNum(l + 1))

C8_Witness ==
    /\ ScoreReturned
    /\ args.proximity_level = Rat(23, 5)
    /\ ret.val.proximity_score = 4

(***************************************************************************)
(* OSIGridAnalyzer.analyze_grid_cells                                      *)
(*                                                                         *)
(* A mask is [dtype, rows]: rows is the raster, row 1 the top row (index 0 *)
(* in the code), each row the sequence of its pixel values.  None is the   *)
(* mask of dtype "NoneType".                                               *)
(***************************************************************************)
NoneMask == [dtype |-> "NoneType", rows |-> <<>>]
IsNone(mask) == mask.dtype = "NoneType"

RECURSIVE count_gt0(_)
\* the number of pixels of a row with value > 0
count_gt0(row) ==
    IF row = <<>> THEN 0
    ELSE (IF row[1] > 0 THEN 1 ELSE 0) + count_gt0(Tail(row))

RECURSIVE sum_rows_gt0(_)
sum_rows_gt0(rows) ==
    IF rows = <<>> THEN 0 ELSE count_gt0(rows[1]) + sum_rows_gt0(Tail(rows))

\* np_sum_gt0 counting every pixel, set or not.
np_sum_gt0_counts_all(mask) ==
    IF mask.rows = <<>> THEN 0 ELSE Len(mask.rows) * Len(mask.rows[1])

\* lines 98-99: np.sum(mask > 0)
np_sum_gt0(mask) == sum_rows_gt0(mask.rows)

\* line 112: np.where(np.any(mask > 0, axis=1))[0], the indices (from 0) of
\* the rows holding a pixel > 0, ascending
affected_rows_of(mask) ==
    SelectSeq([i \in 1 .. Len(mask.rows) |-> i - 1],
              LAMBDA r : \E x \in 1 .. Len(mask.rows[r + 1]) :
                              mask.rows[r + 1][x] > 0)

\* area_percent_of without the clamp to 100.
area_percent_of_unclamped(total_affected_area, total_nail_area) ==
    IF total_nail_area > 0
    THEN PyMax(IntNum(0), Rat(total_affected_area * 100, total_nail_area))
    ELSE IntNum(0)

\* area_percent_of dividing whatever the nail area is: numpy's division by
\* zero gives inf (nan for 0/0), which the clamp turns into 100.
area_percent_of_unguarded(total_affected_area, total_nail_area) ==
    LET q == IF total_nail_area > 0
             THEN Rat(total_affected_area * 100, total_nail_area)
             ELSE IF total_affected_area > 0 THEN PosInf ELSE NaN
    IN  PyMax(IntNum(0), PyMin(IntNum(100), q))

\* lines 101-108
area_percent_of(total_affected_area, total_nail_area) ==
    IF total_nail_area > 0
    THEN PyMax(IntNum(0),
               PyMin(IntNum(100), Rat(total_affected_area * 100, total_nail_area)))
    ELSE IntNum(0)

\* proximity_level_of with >= for > at the 0.8 threshold.
proximity_level_of_ge(affected_top, max_row) ==
    IF max_row <= 0 THEN 1
    ELSE
      LET proximity_ratio == Rat(affected_top, max_row)
      IN  IF Le(Rat(8, 10), proximity_ratio) THEN 1
          ELSE IF Lt(Rat(6, 10), proximity_ratio) THEN 2
          ELSE IF Lt(Rat(4, 10), proximity_ratio) THEN 3
          ELSE IF Lt(Rat(2, 10), proximity_ratio) THEN 4
          ELSE 5

\* lines 122-139: the level of the topmost affected row in a mask of
\* max_row rows
proximity_level_of(affected_top, max_row) ==
    IF max_row <= 0 THEN 1
    ELSE
      LET proximity_ratio == Rat(affected_top, max_row)
      IN  IF Lt(Rat(8, 10), proximity_ratio) THEN 1
          ELSE IF Lt(Rat(6, 10), proximity_ratio) THEN 2
          ELSE IF Lt(Rat(4, 10), proximity_ratio) THEN 3
          ELSE IF Lt(Rat(2, 10), proximity_ratio) THEN 4
          ELSE 5

\* analyze_grid_cells without the test of line 114: affected_rows[0] of an
\* empty array raises IndexError.
analyze_grid_cells_no_empty_test(segmentation_mask, affected_mask, grid) ==
    IF IsNone(segmentation_mask) \/ IsNone(affected_mask)
    THEN Raise("TypeError")
    ELSE
      LET total_nail_area == np_sum_gt0(segmentation_mask)
          total_affected_area == np_sum_gt0(affected_mask)
          area_percent == area_percent_of(total_affected_area, total_nail_area)
          affected_rows == affected_rows_of(affected_mask)
      IN  IF Len(affected_rows) = 0 THEN Raise("IndexError")
          ELSE Return([area_percent |-> area_percent,
                       proximity_level |->
                           IntMax(1, IntMin(5,
                               proximity_level_of(affected_rows[1],
                                                  Len(affected_mask.rows)))),
                       total_nail_area_px |-> total_nail_area,
                       affected_area_px |-> total_affected_area])

\* analyze_grid_cells taking the nail area to be the area of the box the
\* grid spans instead of the count of nail pixels.
analyze_grid_cells_area_of_grid(segmentation_mask, affected_mask, grid) ==
    IF IsNone(segmentation_mask) \/ IsNone(affected_mask)
    THEN Raise("TypeError")
    ELSE
      LET total_nail_area ==
              IF grid = <<>> THEN 0
              ELSE Abs((grid[Len(grid)][Len(grid[1])][2][1] - grid[1][1][1][1])
                       * (grid[Len(grid)][Len(grid[1])][2][2] - grid[1][1][1][2]))
          total_affected_area == np_sum_gt0(affected_mask)
          affected_rows == affected_rows_of(affected_mask)
          level == IF Len(affected_rows) = 0 THEN 1
                   ELSE proximity_level_of(affected_rows[1],
                                           Len(affected_mask.rows))
      IN  Return([area_percent |->
                      area_percent_of(total_affected_area, total_nail_area),
                  proximity_level |-> IntMax(1, IntMin(5, level)),
                  total_nail_area_px |-> total_nail_area,
                  affected_area_px |-> total_affected_area])

\* lines 85-149; a mask that is None raises at mask > 0 (lines 98-99)
analyze_grid_cells(segmentation_mask, affected_mask, grid) ==
    IF IsNone(segmentation_mask) \/ IsNone(affected_mask)
    THEN Raise("TypeError")
    ELSE
      LET total_nail_area == np_sum_gt0(segmentation_mask)
          total_affected_area == np_sum_gt0(affected_mask)
          area_percent == area_percent_of(total_affected_area, total_nail_area)
          affected_rows == affected_rows_of(affected_mask)
          level == IF Len(affected_rows) = 0 THEN 1
                   ELSE proximity_level_of(affected_rows[1],
                                           Len(affected_mask.rows))
          proximity_level == IntMax(1, IntMin(5, level))
      IN  Return([area_percent |-> area_percent,
                  proximity_level |-> proximity_level,
                  total_nail_area_px |-> total_nail_area,
                  affected_area_px |-> total_affected_area])

(***************************************************************************)
(* SpecGrid: one call of analyze_grid_cells.  The masks are uint8 rasters  *)
(* of MaskH rows and MaskW columns whose set pixels form a run in          *)
(* row-major order: the pixels number s .. s+c-1 hold v, the others 0.     *)
(* The nail mask is a run from the first pixel; the affected mask is any   *)
(* run, so it may hold more set pixels than the nail mask.  Either mask    *)
(* may also be the raster with no rows.                                    *)
(***************************************************************************)
MaskH == 10
MaskW == 2

RunMask(h, w, s, c, v) ==
    [dtype |-> "uint8",
     rows |-> [r \in 1 .. h |->
                 [x \in 1 .. w |->
                    LET i == (r - 1) * w + (x - 1)
                    IN  IF s <= i /\ i < s + c THEN v ELSE 0]]]

EmptyRaster == [dtype |-> "uint8", rows |-> <<>>]

PixelOn == {1, 255}

NailMasks ==
    {RunMask(MaskH, MaskW, 0, c, 255) : c \in 0 .. MaskH * MaskW}
    \cup {EmptyRaster}

AffectedMasks ==
    {RunMask(MaskH, MaskW, 0, 0, 255), EmptyRaster}
    \cup UNION {
           {RunMask(MaskH, MaskW, s, c, v) : c \in 1 .. (MaskH * MaskW - s)}
           : <<s, v>> \in (0 .. MaskH * MaskW - 1) \X PixelOn }

\* The grid argument: a list of rows of cells ((x1, y1), (x2, y2)).
GridInputs == { <<>>, << << << <<0, 0>>, <<MaskW, MaskH>> >> >> >> }

InitGrid ==
    /\ pc = "called"
    /\ fn = "analyze_grid_cells"
    /\ args \in [segmentation_mask : NailMasks,
                 affected_mask : AffectedMasks,
                 grid : GridInputs]
    /\ ret = Raise("pending")

AnalyzeGridCells ==
    /\ pc = "called"
    /\ fn = "analyze_grid_cells"
    /\ ret' = analyze_grid_cells(args.segmentation_mask, args.affected_mask,
                                 args.grid)
    /\ pc' = "returned"
    /\ UNCHANGED <<fn, args>>

NextGrid == AnalyzeGridCells

SpecGrid == InitGrid /\ [][NextGrid]_vars

(***************************************************************************)
(* Properties of analyze_grid_cells, checked under SpecGrid.               *)
(***************************************************************************)
GridDone == pc = "returned" /\ fn = "analyze_grid_cells"

\* The set pixels of a mask: the positions whose value is not 0.
SetPixels(mask) ==
    {q \in (1 .. Len(mask.rows)) \X (1 .. MaskW) : mask.rows[q[1]][q[2]] # 0}

NailPixels == Cardinality(SetPixels(args.segmentation_mask))
AffectedPixels == Cardinality(SetPixels(args.affected_mask))

\* C9: with N > 0 set pixels in the nail mask and a in the affected mask,
\* analyze_grid_cells returns total_nail_area_px = N, affected_area_px = a
\* and area_percent = min(100, 100*a/N), which is 100 whenever a >= N; when
\* 100*a/N is 10, get_osi_score gives that percentage area_score 1.
C9_AreaPercent ==
    (GridDone /\ NailPixels > 0) =>
        LET N == NailPixels
            a == AffectedPixels
            ap == ret.val.area_percent
        IN  /\ ret.exc = "None"
            /\ ret.val.total_nail_area_px = N
            /\ ret.val.affected_area_px = a
            /\ IsFinite(ap)
            /\ IF a >= N THEN ap.n = 100 * ap.d
               ELSE ap.n * N = 100 * a * ap.d
            /\ (10 * a = N) =>
                   get_osi_score(ap, IntNum(ret.val.proximity_level)).val.area_score = 1

C9_Witness ==
    /\ GridDone
    /\ NailPixels = 20
    /\ AffectedPixels = 2
    /\ ret.val.total_nail_area_px = 20
    /\ ret.val.affected_area_px = 2
    /\ ret.val.area_percent = IntNum(10)

\* C10: healthy override: when the nail mask has no set pixel,
\* analyze_grid_cells returns (does not raise) area_percent = 0 and
\* total_nail_area_px = 0, however many affected pixels are set.
C10_HealthyOverride ==
    (GridDone /\ NailPixels = 0) =>
        /\ ret.exc = "None"
        /\ ret.val.total_nail_area_px = 0
        /\ ret.val.area_percent = IntNum(0)

C10_Witness ==
    /\ GridDone
    /\ NailPixels = 0
    /\ AffectedPixels = 7
    /\ ret.val.affected_area_px = 7
    /\ ret.val.area_percent = IntNum(0)

\* The index (from 0) of the topmost row of the affected mask that holds a
\* set pixel.
TopRow ==
    CHOOSE t \in 0 .. Len(args.affected_mask.rows) :
        /\ \E q \in SetPixels(args.affected_mask) : q[1] = t + 1
        /\ \A q \in SetPixels(args.affected_mask) : q[1] >= t + 1

\* C11: when the affected mask holds a set pixel, with topmost set row t and
\* mask height H > 0, proximity_level is 1 if t/H > 0.8, 2 if
\* 0.6 < t/H <= 0.8, 3 if 0.4 < t/H <= 0.6, 4 if 0.2 < t/H <= 0.4 and 5 if
\* t/H <= 0.2, whatever else the masks and the grid hold.
C11_ProximityThresholds ==
    (GridDone /\ AffectedPixels > 0) =>
        LET t == TopRow
            H == Len(args.affected_mask.rows)
            l == ret.val.proximity_level
        IN  /\ ret.exc = "None"
            /\ H > 0
            /\ (l = 1) <=> (10 * t > 8 * H)
            /\ (l = 2) <=> (10 * t > 6 * H /\ 10 * t <= 8 * H)
            /\ (l = 3) <=> (10 * t > 4 * H /\ 10 * t <= 6 * H)
            /\ (l = 4) <=> (10 * t > 2 * H /\ 10 * t <= 4 * H)
            /\ (l = 5) <=> (10 * t <= 2 * H)

C11_Witness ==
    /\ GridDone
    /\ AffectedPixels > 0
    /\ Len(args.affected_mask.rows) = 10
    /\ TopRow = 8
    /\ ret.val.proximity_level = 2

\* C16: analyze_grid_cells never raises and its record is within range for
\* every pair of masks, all-zero masks, affected masks with more set pixels
\* than the nail mask and zero-height masks included: area_percent in
\* [0,100], proximity_level in 1..5, both pixel counts integers >= 0; an
\* empty nail mask gives area_percent 0 and an empty affected mask gives
\* area_percent 0 and proximity_level 1.
C16_AnalyzeTotalInRange ==
    GridDone =>
        /\ ret.exc = "None"
        /\ IsFinite(ret.val.area_percent)
        /\ Le(IntNum(0), ret.val.area_percent)
        /\ Le(ret.val.area_percent, IntNum(100))
        /\ ret.val.proximity_level \in 1 .. 5
        /\ ret.val.total_nail_area_px \in Nat
        /\ ret.val.affected_area_px \in Nat
        /\ NailPixels = 0 => ret.val.area_percent = IntNum(0)
        /\ AffectedPixels = 0 =>
              ret.val.area_percent = IntNum(0) /\ ret.val.proximity_level = 1

C16_Witness ==
    /\ GridDone
    /\ args.segmentation_mask = EmptyRaster
    /\ args.affected_mask = EmptyRaster
    /\ ret.val.area_percent = IntNum(0)
    /\ ret.val.proximity_level = 1
    /\ ret.val.total_nail_area_px = 0

(***************************************************************************)
(* OSIGridAnalyzer.create_grid_overlay                                     *)
(*                                                                         *)
(* A point is <<x, y>>, a cell <<<<x1, y1>>, <<x2, y2>>>>, a grid the      *)
(* sequence of its rows, each the sequence of its cells.  A box is         *)
(* <<x, y, w, h>>.                                                         *)
(***************************************************************************)
\* line 271: OSIGridAnalyzer(grid_cols=4, grid_rows=5)
grid_cols == 4
grid_rows == 5

\* cell_coord with the cell size truncated first (w // grid_cols).
cell_coord_int_size(origin, extent, parts, k) == origin + k * (extent \div parts)

\* lines 67-68 and 75-78: int(origin + k * (extent / parts))
cell_coord(origin, extent, parts, k) ==
    PyInt(Rat(parts * origin + k * extent, parts)).val

\* create_grid_overlay with the two loops exchanged (grid_cols rows of
\* grid_rows cells).
create_grid_overlay_swapped(img_height, img_width, nail_bbox) ==
    LET x == nail_bbox[1]
        y == nail_bbox[2]
        w == nail_bbox[3]
        h == nail_bbox[4]
    IN  [col \in 1 .. grid_cols |->
           [row \in 1 .. grid_rows |->
              << << cell_coord(x, w, grid_cols, col - 1),
                    cell_coord(y, h, grid_rows, row - 1) >>,
                 << cell_coord(x, w, grid_cols, col),
                    cell_coord(y, h, grid_rows, row) >> >> ]]

\* lines 51-83; row and col count from 1 here, from 0 in the code
create_grid_overlay(img_height, img_width, nail_bbox) ==
    LET x == nail_bbox[1]
        y == nail_bbox[2]
        w == nail_bbox[3]
        h == nail_bbox[4]
    IN  [row \in 1 .. grid_rows |->
           [col \in 1 .. grid_cols |->
              << << cell_coord(x, w, grid_cols, col - 1),
                    cell_coord(y, h, grid_rows, row - 1) >>,
                 << cell_coord(x, w, grid_cols, col),
                    cell_coord(y, h, grid_rows, row) >> >> ]]

(***************************************************************************)
(* SpecOverlay: one call of create_grid_overlay, over the boxes with       *)
(* corner in 0..BoxMaxXY and sides in 0..BoxMaxWH (pixel coordinates are   *)
(* not negative), in a frame that holds them.                              *)
(***************************************************************************)
BoxMaxXY == 3
BoxMaxWH == 12

OverlayBoxes ==
    (0 .. BoxMaxXY) \X (0 .. BoxMaxXY) \X (0 .. BoxMaxWH) \X (0 .. BoxMaxWH)

InitOverlay ==
    /\ pc = "called"
    /\ fn = "create_grid_overlay"
    /\ args \in [img_height : {BoxMaxXY + BoxMaxWH},
                 img_width : {BoxMaxXY + BoxMaxWH},
                 nail_bbox : OverlayBoxes]
    /\ ret = Raise("pending")

CreateGridOverlay ==
    /\ pc = "called"
    /\ fn = "create_grid_overlay"
    /\ ret' = Return(create_grid_overlay(args.img_height, args.img_width,
                                         args.nail_bbox))
    /\ pc' = "returned"
    /\ UNCHANGED <<fn, args>>

NextOverlay == CreateGridOverlay

SpecOverlay == InitOverlay /\ [][NextOverlay]_vars

(***************************************************************************)
(* Properties of create_grid_overlay, checked under SpecOverlay.           *)
(***************************************************************************)
OverlayDone == pc = "returned" /\ fn = "create_grid_overlay"
PositiveBox == args.nail_bbox[3] > 0 /\ args.nail_bbox[4] > 0

\* The cells of a grid, in the order of the list.
RECURSIVE Flatten(_)
Flatten(rows) == IF rows = <<>> THEN <<>> ELSE rows[1] \o Flatten(Tail(rows))

\* The unit square with top-left corner (i, j) lies in the cell.
InCell(i, j, cell) ==
    /\ cell[1][1] <= i /\ i + 1 <= cell[2][1]
    /\ cell[1][2] <= j /\ j + 1 <= cell[2][2]

\* C15: for a box with w, h > 0 the grid has exactly 20 cells in row-major
\* order: 5 rows listed top to bottom (y1 does not decrease from a row to
\* the next), each of 4 cells listed left to right (x1 does not decrease),
\* and the cells together cover the box [x, x+w] x [y, y+h].
C15_GridTwentyCellsCover ==
    (OverlayDone /\ PositiveBox) =>
        LET g == ret.val
            x == args.nail_bbox[1]
            y == args.nail_bbox[2]
            w == args.nail_bbox[3]
            h == args.nail_bbox[4]
        IN  /\ ret.exc = "None"
            /\ Len(g) = 5
            /\ \A r \in 1 .. Len(g) : Len(g[r]) = 4
            /\ Len(Flatten(g)) = 20
            /\ \A r \in 1 .. Len(g) : \A c \in 1 .. Len(g[r]) :
                  /\ c < Len(g[r]) => g[r][c][1][1] <= g[r][c + 1][1][1]
                  /\ r < Len(g) => g[r][c][1][2] <= g[r + 1][c][1][2]
                  /\ c < Len(g[r]) => g[r][c][1][2] = g[r][c + 1][1][2]
            /\ \A i \in x .. (x + w - 1) : \A j \in y .. (y + h - 1) :
                  \E n \in 1 .. Len(Flatten(g)) : InCell(i, j, Flatten(g)[n])

C15_Witness ==
    /\ OverlayDone
    /\ args.nail_bbox = <<1, 2, 9, 11>>
    /\ Len(Flatten(ret.val)) = 20
    /\ Flatten(ret.val)[1] = << <<1, 2>>, <<3, 4>> >>
    /\ Flatten(ret.val)[2] = << <<3, 2>>, <<5, 4>> >>
    /\ Flatten(ret.val)[20] = << <<7, 10>>, <<10, 13>> >>

Spread(S) == \A a \in S : \A b \in S : a - b <= 1

\* C20: the cells tile the box: cells side by side share their edge (x2 of
\* a column is x1 of the next), cells one above the other share theirs (y2
\* of a row is y1 of the next), the first cell starts at (x, y), the last
\* ends at (x+w, y+h), every cell has x1 <= x2 and y1 <= y2, and two column
\* widths, or two row heights, differ by at most 1.
C20_GridTiles ==
    (OverlayDone /\ PositiveBox) =>
        LET g == ret.val
            x == args.nail_bbox[1]
            y == args.nail_bbox[2]
            w == args.nail_bbox[3]
            h == args.nail_bbox[4]
            R == 1 .. Len(g)
        IN  /\ g[1][1][1] = <<x, y>>
            /\ g[Len(g)][Len(g[Len(g)])][2] = <<x + w, y + h>>
            /\ \A r \in R : \A c \in 1 .. Len(g[r]) :
                  /\ g[r][c][1][1] <= g[r][c][2][1]
                  /\ g[r][c][1][2] <= g[r][c][2][2]
                  /\ c < Len(g[r]) => g[r][c][2][1] = g[r][c + 1][1][1]
                  /\ r < Len(g) => g[r][c][2][2] = g[r + 1][c][1][2]
            /\ Spread({g[r][c][2][1] - g[r][c][1][1] :
                          <<r, c>> \in R \X (1 .. Len(g[1]))})
            /\ Spread({g[r][c][2][2] - g[r][c][1][2] :
                          <<r, c>> \in R \X (1 .. Len(g[1]))})

C20_Witness ==
    /\ OverlayDone
    /\ args.nail_bbox = <<0, 0, 10, 12>>
    /\ ret.val[1][1] = << <<0, 0>>, <<2, 2>> >>
    /\ ret.val[1][2] = << <<2, 0>>, <<5, 2>> >>
    /\ ret.val[5][4] = << <<7, 9>>, <<10, 12>> >>

(***************************************************************************)
(* Arrays of the pipeline.  An image is [dtype, rows] with a <<b, g, r>>   *)
(* triple per pixel.  The pixel in row r and column c (both from 1) is the *)
(* code's [r-1, c-1], the point (x, y) = (c-1, r-1) of the drawing calls.  *)
(***************************************************************************)
Height(a) == Len(a.rows)
Width(a) == IF a.rows = <<>> THEN 0 ELSE Len(a.rows[1])
Pixels(a) == (1 .. Height(a)) \X (1 .. Width(a))

\* ndarray.max() of a mask that holds a pixel
mask_max(mask) ==
    CHOOSE v \in {mask.rows[q[1]][q[2]] : q \in Pixels(mask)} :
        \A q \in Pixels(mask) : mask.rows[q[1]][q[2]] <= v

\* lines 37, 245, 275, 280:
\* (mask * 255).astype(np.uint8) if mask.max() <= 1 else mask.astype(np.uint8)
to_uint8(mask) ==
    IF mask_max(mask) <= 1
    THEN [dtype |-> "uint8",
          rows |-> [r \in 1 .. Height(mask) |->
                      [c \in 1 .. Width(mask) |-> (mask.rows[r][c] * 255) % 256]]]
    ELSE [dtype |-> "uint8",
          rows |-> [r \in 1 .. Height(mask) |->
                      [c \in 1 .. Width(mask) |-> mask.rows[r][c] % 256]]]

(***************************************************************************)
(* OSIGridAnalyzer.detect_nail_contour                                     *)
(*                                                                         *)
(* cv2.findContours(RETR_EXTERNAL) gives one contour for each 8-connected  *)
(* region of non-zero pixels; a region is kept here as its set of pixels.  *)
(***************************************************************************)
NonZero(mask) == {q \in Pixels(mask) : mask.rows[q[1]][q[2]] # 0}

Adjacent8(p, q) == Abs(p[1] - q[1]) <= 1 /\ Abs(p[2] - q[2]) <= 1

RECURSIVE Grow(_, _)
Grow(S, P) ==
    LET T == S \cup {q \in P : \E p \in S : Adjacent8(p, q)}
    IN  IF Cardinality(T) = Cardinality(S) THEN S ELSE Grow(T, P)

RECURSIVE Components(_)
\* The 8-connected regions a set of pixels falls into
Components(P) ==
    IF P = {} THEN {}
    ELSE LET region == Grow({CHOOSE p \in P : TRUE}, P)
         IN  {region} \cup Components(P \ region)

\* findContours giving all the non-zero pixels as one contour.
findContours_merged(mask) ==
    IF NonZero(mask) = {} THEN {} ELSE {NonZero(mask)}

\* line 40: the external contours, each as the region it encloses
findContours(mask) == Components(NonZero(mask))

MinOf(S) == CHOOSE a \in S : \A b \in S : a <= b
MaxOf(S) == CHOOSE a \in S : \A b \in S : a >= b

\* line 47: cv2.boundingRect, (x, y, w, h) of the region's extent
boundingRect(region) ==
    LET ys == {q[1] - 1 : q \in region}
        xs == {q[2] - 1 : q \in region}
    IN  <<MinOf(xs), MinOf(ys), MaxOf(xs) - MinOf(xs) + 1, MaxOf(ys) - MinOf(ys) + 1>>

\* line 46: cv2.contourArea, the area of the polygon through the centres of
\* the region's border pixels; for a region that fills its bounding
\* rectangle (every region of the masks modelled here) that polygon is the
\* rectangle of sides w - 1 and h - 1.
contourArea(region) ==
    (boundingRect(region)[3] - 1) * (boundingRect(region)[4] - 1)

\* The place of a region in the list findContours returns: regions met
\* later in the scan (top to bottom, left to right) come first.
ScanKey(mask, region) ==
    MinOf({(q[1] - 1) * Width(mask) + (q[2] - 1) : q \in region})

None == <<>>

\* lines 26-49; the value is <<contour, bounding box>>
detect_nail_contour(segmentation_mask) ==
    IF Pixels(segmentation_mask) = {} THEN Raise("ValueError")
    ELSE
      LET mask_uint8 == to_uint8(segmentation_mask)
          contours == findContours(mask_uint8)
      IN  IF contours = {} THEN Return(<<None, None>>)
          ELSE
            LET best == {c \in contours :
                            \A d \in contours : contourArea(d) <= contourArea(c)}
                nail_contour ==
                    CHOOSE c \in best :
                        \A d \in best : ScanKey(mask_uint8, d) <= ScanKey(mask_uint8, c)
            IN  Return(<<nail_contour, boundingRect(nail_contour)>>)

(***************************************************************************)
(* draw_grid_on_image and the blends                                       *)
(*                                                                         *)
(* Arrays live in a heap, a function from buffer names to arrays, so that  *)
(* a write through one name is seen through every alias of it.  A copy     *)
(* fills a fresh buffer and gives its name.                                *)
(***************************************************************************)
Buffers ==
    {"cropped_nail_image", "segmentation_mask", "affected_mask",
     "seg_mask_uint8", "aff_mask_uint8", "image_copy", "output",
     "nail_segmentation_viz"}

Unallocated == [dtype |-> "unallocated", rows |-> <<>>]

\* ndarray_copy handing back the source buffer itself (no copy made).
ndarray_copy_alias(heap, src, dst) == [heap |-> heap, ref |-> src]

\* lines 230, 317, 323: ndarray.copy()
ndarray_copy(heap, src, dst) ==
    [heap |-> [heap EXCEPT ![dst] = heap[src]], ref |-> dst]

\* The pixels cv2.rectangle paints for a border 3 thick: those at most one
\* pixel away from the rectangle's outline, inside the image.
OnOutline(q, cell) ==
    LET px == q[2] - 1
        py == q[1] - 1
        x1 == cell[1][1]
        y1 == cell[1][2]
        x2 == cell[2][1]
        y2 == cell[2][2]
    IN  /\ x1 - 1 <= px /\ px <= x2 + 1
        /\ y1 - 1 <= py /\ py <= y2 + 1
        /\ ~ (x1 + 2 <= px /\ px <= x2 - 2 /\ y1 + 2 <= py /\ py <= y2 - 2)

\* lines 233-241: every cell drawn in grid_color = (0, 255, 0)
draw_cells(image, grid) ==
    LET cells == {grid[i][j] : i \in 1 .. grid_rows, j \in 1 .. grid_cols}
    IN  [dtype |-> image.dtype,
         rows |-> [r \in 1 .. Height(image) |->
                     [c \in 1 .. Width(image) |->
                        IF \E cell \in cells : OnOutline(<<r, c>>, cell)
                        THEN <<0, 255, 0>>
                        ELSE image.rows[r][c]]]]

\* n / d rounded to the nearest integer, a half to the even one
RoundHalfEven(n, d) ==
    LET q == n \div d
        r == n % d
    IN  IF 2 * r < d THEN q
        ELSE IF 2 * r > d THEN q + 1
        ELSE IF q % 2 = 0 THEN q ELSE q + 1

\* lines 250, 330: cv2.addWeighted(src1, alpha/100, src2, beta/100, 0),
\* rounded and saturated to uint8
addWeighted(src1, alpha, src2, beta) ==
    [dtype |-> "uint8",
     rows |-> [r \in 1 .. Height(src1) |->
                 [c \in 1 .. Width(src1) |->
                    [ch \in 1 .. 3 |->
                       IntMin(255, RoundHalfEven(alpha * src1.rows[r][c][ch]
                                                   + beta * src2.rows[r][c][ch],
                                                 100))]]]]

\* lines 247-248, 326-327: np.zeros_like(image), then colour where mask > 127
overlay_of(image, mask, colour) ==
    [dtype |-> "uint8",
     rows |-> [r \in 1 .. Height(image) |->
                 [c \in 1 .. Width(image) |->
                    IF mask.rows[r][c] > 127 THEN colour ELSE <<0, 0, 0>>]]]

\* lines 215-252; image and affected_mask name buffers of the heap; the
\* value is the heap after the call and the image returned
draw_grid_on_image(heap, image, grid, affected_mask) ==
    LET copied == ndarray_copy(heap, image, "output")
        drawn == [copied.heap EXCEPT
                      ![copied.ref] = draw_cells(copied.heap[copied.ref], grid)]
        output == drawn[copied.ref]
    IN  [heap |-> drawn,
         out |-> IF IsNone(drawn[affected_mask]) THEN output
                 ELSE addWeighted(output, 85,
                                  overlay_of(output, to_uint8(drawn[affected_mask]),
                                             <<0, 0, 255>>),
                                  25)]

(***************************************************************************)
(* process_nail_for_grading                                                *)
(***************************************************************************)
\* resolve_nail_bbox asking the contour before the detector's box.
resolve_nail_bbox_contour_first(cropped_nail_image, seg_mask_uint8, nail_bbox_from_detection) ==
    LET detected == detect_nail_contour(seg_mask_uint8)
    IN  IF detected.exc # "None" THEN detected
        ELSE IF detected.val[2] # None THEN Return(detected.val[2])
        ELSE IF nail_bbox_from_detection # None
        THEN Return(<<nail_bbox_from_detection[1], nail_bbox_from_detection[2],
                      nail_bbox_from_detection[3] - nail_bbox_from_detection[1],
                      nail_bbox_from_detection[4] - nail_bbox_from_detection[2]>>)
        ELSE Return(<<0, 0, Width(cropped_nail_image), Height(cropped_nail_image)>>)

\* lines 284-297: the box the grid is built over
resolve_nail_bbox(cropped_nail_image, seg_mask_uint8, nail_bbox_from_detection) ==
    IF nail_bbox_from_detection # None
    THEN Return(<<nail_bbox_from_detection[1], nail_bbox_from_detection[2],
                  nail_bbox_from_detection[3] - nail_bbox_from_detection[1],
                  nail_bbox_from_detection[4] - nail_bbox_from_detection[2]>>)
    ELSE
      LET detected == detect_nail_contour(seg_mask_uint8)
      IN  IF detected.exc # "None" THEN detected
          ELSE IF detected.val[2] = None
          THEN Return(<<0, 0, Width(cropped_nail_image), Height(cropped_nail_image)>>)
          ELSE Return(detected.val[2])

\* grading_record without the resolved box.
grading_record_without_bbox(osi_result, grid_analysis, grid_image, nail_segmentation_viz, grid, nail_bbox) ==
    [osi_score |-> osi_result,
     grid_analysis |-> grid_analysis,
     grid_visualization |-> grid_image,
     nail_segmentation_visualization |-> nail_segmentation_viz,
     grid_coordinates |-> grid]

\* lines 332-339: the record returned
grading_record(osi_result, grid_analysis, grid_image, nail_segmentation_viz, grid, nail_bbox) ==
    [osi_score |-> osi_result,
     grid_analysis |-> grid_analysis,
     grid_visualization |-> grid_image,
     nail_segmentation_visualization |-> nail_segmentation_viz,
     grid_coordinates |-> grid,
     nail_bbox |-> nail_bbox]

\* The steps of process_nail_for_grading, last to first; each takes what
\* the steps before it have assigned and gives the call's outcome: [exc,
\* val] and the heap the call leaves.
Raised(e, heap) == [exc |-> e, val |-> NoVal, heap |-> heap]

\* lines 325-339
process_with_viz(viz, grid_image, seg_mask_uint8, nail_bbox, grid, grid_analysis, osi_result) ==
    [exc |-> "None",
     val |-> grading_record(
                 osi_result, grid_analysis, grid_image,
                 addWeighted(viz.heap[viz.ref], 70,
                             overlay_of(viz.heap[viz.ref],
                                        viz.heap[seg_mask_uint8],
                                        <<255, 255, 255>>),
                             30),
                 grid, nail_bbox),
     heap |-> viz.heap]

\* line 323
process_with_grid_image(drawn, seg_mask_uint8, nail_bbox, grid, grid_analysis, osi_result) ==
    process_with_viz(ndarray_copy(drawn.heap, "cropped_nail_image",
                                  "nail_segmentation_viz"),
                     drawn.out, seg_mask_uint8, nail_bbox, grid, grid_analysis,
                     osi_result)

\* lines 316-320, the call of draw_grid_on_image on the copy
process_with_image_copy(copy, seg_mask_uint8, aff_mask_uint8, nail_bbox, grid, grid_analysis, osi_result) ==
    process_with_grid_image(draw_grid_on_image(copy.heap, copy.ref, grid,
                                               aff_mask_uint8),
                            seg_mask_uint8, nail_bbox, grid, grid_analysis,
                            osi_result)

\* lines 316-320, the copy passed to draw_grid_on_image
process_with_score(heap, seg_mask_uint8, aff_mask_uint8, nail_bbox, grid, grid_analysis, osi_result) ==
    IF osi_result.exc # "None" THEN Raised(osi_result.exc, heap)
    ELSE process_with_image_copy(
             ndarray_copy(heap, "cropped_nail_image", "image_copy"),
             seg_mask_uint8, aff_mask_uint8, nail_bbox, grid, grid_analysis,
             osi_result.val)

\* lines 310-313
process_with_analysis(heap, seg_mask_uint8, aff_mask_uint8, nail_bbox, grid, grid_analysis) ==
    IF grid_analysis.exc # "None" THEN Raised(grid_analysis.exc, heap)
    ELSE process_with_score(
             heap, seg_mask_uint8, aff_mask_uint8, nail_bbox, grid,
             grid_analysis.val,
             get_osi_score(grid_analysis.val.area_percent,
                           IntNum(grid_analysis.val.proximity_level)))

\* line 307
process_with_grid(heap, seg_mask_uint8, aff_mask_uint8, nail_bbox, grid) ==
    process_with_analysis(heap, seg_mask_uint8, aff_mask_uint8, nail_bbox, grid,
                          analyze_grid_cells(heap[seg_mask_uint8],
                                             heap[aff_mask_uint8], grid))

\* lines 300-304; cropped_nail_image.shape (lines 295, 301) of an image
\* that is None raises AttributeError
process_with_bbox(heap, seg_mask_uint8, aff_mask_uint8, resolved) ==
    IF IsNone(heap["cropped_nail_image"]) THEN Raised("AttributeError", heap)
    ELSE IF resolved.exc # "None" THEN Raised(resolved.exc, heap)
    ELSE process_with_grid(
             heap, seg_mask_uint8, aff_mask_uint8, resolved.val,
             create_grid_overlay(Height(heap["cropped_nail_image"]),
                                 Width(heap["cropped_nail_image"]),
                                 resolved.val))

\* lines 284-297
process_with_masks(heap, seg_mask_uint8, aff_mask_uint8, nail_bbox_from_detection) ==
    process_with_bbox(heap, seg_mask_uint8, aff_mask_uint8,
                      resolve_nail_bbox(heap["cropped_nail_image"],
                                        heap[seg_mask_uint8],
                                        nail_bbox_from_detection))

\* lines 279-282
process_with_seg_mask(heap, seg_mask_uint8, nail_bbox_from_detection) ==
    IF ~IsNone(heap["affected_mask"]) /\ heap["affected_mask"].dtype # "uint8"
    THEN process_with_masks(
             [heap EXCEPT !["aff_mask_uint8"] = to_uint8(heap["affected_mask"])],
             seg_mask_uint8, "aff_mask_uint8", nail_bbox_from_detection)
    ELSE process_with_masks(heap, seg_mask_uint8, "affected_mask",
                            nail_bbox_from_detection)

\* lines 274-277
process_with_arguments(heap, nail_bbox_from_detection) ==
    IF heap["segmentation_mask"].dtype # "uint8"
    THEN process_with_seg_mask(
             [heap EXCEPT
                !["seg_mask_uint8"] = to_uint8(heap["segmentation_mask"])],
             "seg_mask_uint8", nail_bbox_from_detection)
    ELSE process_with_seg_mask(heap, "segmentation_mask",
                               nail_bbox_from_detection)

\* lines 255-339; the value is [exc, val] and the heap after the call
process_nail_for_grading(cropped_nail_image, segmentation_mask, affected_mask, nail_bbox_from_detection) ==
    process_with_arguments(
        [b \in Buffers |->
           CASE b = "cropped_nail_image" -> cropped_nail_image
             [] b = "segmentation_mask" -> segmentation_mask
             [] b = "affected_mask" -> affected_mask
             [] OTHER -> Unallocated],
        nail_bbox_from_detection)

(***************************************************************************)
(* One call of process_nail_for_grading on a PipeH x PipeW crop            *)
(***************************************************************************)
PipeH == 4
PipeW == 3

\* The crop: a colour image whose pixels all differ from one another and
\* from the drawing colours.
PipeImage ==
    [dtype |-> "uint8",
     rows |-> [r \in 1 .. PipeH |-> [c \in 1 .. PipeW |-> <<20 * r, 20 * c, 100>>]]]

\* A PipeH x PipeW mask of value v on rows r1..r2, columns c1..c2, 0 elsewhere
FilledMask(r1, r2, c1, c2, dtype, v) ==
    [dtype |-> dtype,
     rows |-> [r \in 1 .. PipeH |->
                 [c \in 1 .. PipeW |->
                    IF r1 <= r /\ r <= r2 /\ c1 <= c /\ c <= c2 THEN v ELSE 0]]]

ZeroMask(dtype) == FilledMask(1, 0, 1, 0, dtype, 0)

RowSpans == {s \in (1 .. PipeH) \X (1 .. PipeH) : s[1] <= s[2]}

\* the whole width, the left column, the right column
ColSpans == {<<1, PipeW>>, <<1, 1>>, <<PipeW, PipeW>>}

\* Nail masks as the segmentation collaborator hands them over: 0/255 in
\* uint8, or 0/1 in uint8, bool or float64
PipeNailMasks ==
    {FilledMask(rs[1], rs[2], cs[1], cs[2], "uint8", 255) :
         rs \in RowSpans, cs \in ColSpans}
    \cup {FilledMask(1, r2, 1, PipeW, dt, 1) :
              r2 \in 1 .. PipeH, dt \in {"uint8", "bool", "float64"}}
    \cup {ZeroMask("uint8")}

\* Affected masks, the absent one (None) among them
PipeAffectedMasks ==
    {FilledMask(r, r, 1, PipeW, "uint8", 255) : r \in 1 .. PipeH}
    \cup {FilledMask(1, PipeH, 1, PipeW, "uint8", 255)}
    \cup {FilledMask(r, r, 1, 1, "float64", 1) : r \in 1 .. PipeH}
    \cup {ZeroMask("uint8"), ZeroMask("float64"), NoneMask}

\* Detector boxes (x1, y1, x2, y2), or None when the caller has none
PipeBoxes ==
    {None, <<0, 0, PipeW, PipeH>>, <<1, 1, PipeW, PipeH>>, <<0, 0, 0, 0>>,
     <<0, 0, PipeW + 2, PipeH + 2>>}

InitPipe ==
    /\ pc = "called"
    /\ fn = "process_nail_for_grading"
    /\ args \in [cropped_nail_image : {PipeImage},
                 segmentation_mask : PipeNailMasks,
                 affected_mask : PipeAffectedMasks,
                 nail_bbox_from_detection : PipeBoxes]
    /\ ret = Raise("pending")

\* The call: its result, and its arguments as the call leaves them
ProcessNailForGrading ==
    /\ pc = "called"
    /\ fn = "process_nail_for_grading"
    /\ \E done \in {process_nail_for_grading(args.cropped_nail_image,
                                             args.segmentation_mask,
                                             args.affected_mask,
                                             args.nail_bbox_from_detection)} :
           /\ ret' = [exc |-> done.exc, val |-> done.val]
           /\ args' = [args EXCEPT
                         !.cropped_nail_image = done.heap["cropped_nail_image"],
                         !.segmentation_mask = done.heap["segmentation_mask"],
                         !.affected_mask = done.heap["affected_mask"]]
    /\ pc' = "returned"
    /\ UNCHANGED fn

NextPipe == ProcessNailForGrading

SpecPipe == InitPipe /\ [][NextPipe]_vars

PipeDone == pc = "returned" /\ fn = "process_nail_for_grading"

PipeReturned == PipeDone /\ ret.exc = "None"

\* The pixels (row, column) the call's nail mask and affected mask set
PipeNailSet == NonZero(args.segmentation_mask)

PipeAffectedSet ==
    IF IsNone(args.affected_mask) THEN {} ELSE NonZero(args.affected_mask)

\* The zero result: no area, distal level, total 0, "Clinically Cured"
IsZeroResult(record) ==
    /\ record.grid_analysis.area_percent = IntNum(0)
    /\ record.grid_analysis.proximity_level = 1
    /\ record.grid_analysis.affected_area_px = 0
    /\ record.osi_score.area_percent = IntNum(0)
    /\ record.osi_score.proximity_level = 1
    /\ record.osi_score.area_score = 0
    /\ record.osi_score.total_osi_score = 0
    /\ record.osi_score.severity = "Clinically Cured / No involvement"

\* C12: healthy path: for an all-zero affected mask and any nail mask, the
\* all-zero nail mask included, process_nail_for_grading returns a record
\* with area_percent = 0, proximity_level = 1, total_osi_score = 0 and
\* severity "Clinically Cured / No involvement".
C12_HealthyPath ==
    (PipeDone /\ ~IsNone(args.affected_mask) /\ PipeAffectedSet = {}) =>
        /\ ret.exc = "None"
        /\ IsZeroResult(ret.val)

C12_Witness ==
    /\ PipeDone
    /\ args.affected_mask = ZeroMask("float64")
    /\ PipeNailSet = {}
    /\ args.nail_bbox_from_detection = None
    /\ ret.exc = "None"
    /\ IsZeroResult(ret.val)
    /\ ret.val.nail_bbox = <<0, 0, PipeW, PipeH>>

\* C13: called with the affected mask absent (None),
\* process_nail_for_grading does not raise: it returns the zero record
\* (area_percent 0, proximity_level 1, total_osi_score 0, "Clinically
\* Cured / No involvement").
C13_AbsentMaskGraded ==
    (PipeDone /\ IsNone(args.affected_mask)) =>
        /\ ret.exc = "None"
        /\ IsZeroResult(ret.val)

\* The box (x, y, w, h) spanned by a non-empty set of pixels (row, column)
Extent(S) ==
    LET x1 == MinOf({q[2] : q \in S}) - 1
        y1 == MinOf({q[1] : q \in S}) - 1
        x2 == MaxOf({q[2] : q \in S})
        y2 == MaxOf({q[1] : q \in S})
    IN  <<x1, y1, x2 - x1, y2 - y1>>

\* C14: the order of precedence of nail_bbox: an external box
\* (x1, y1, x2, y2) gives (x1, y1, x2-x1, y2-y1) whatever the masks hold;
\* without one, the box detected from the nail mask's contour; with no
\* contour either (all-zero nail mask), the full frame (0, 0, width,
\* height).  The returned grid is the grid built over the returned box.
C14_BboxPrecedence ==
    PipeReturned =>
        LET external == args.nail_bbox_from_detection
            image == args.cropped_nail_image
        IN  /\ external # None =>
                   ret.val.nail_bbox = <<external[1], external[2],
                                         external[3] - external[1],
                                         external[4] - external[2]>>
            /\ (external = None /\ PipeNailSet # {}) =>
                   ret.val.nail_bbox = Extent(PipeNailSet)
            /\ (external = None /\ PipeNailSet = {}) =>
                   ret.val.nail_bbox = <<0, 0, Width(image), Height(image)>>
            /\ ret.val.grid_coordinates =
                   create_grid_overlay(Height(image), Width(image),
                                       ret.val.nail_bbox)

\* An external box wins over a nail mask whose contour spans another box.
C14_Witness ==
    /\ PipeReturned
    /\ args.nail_bbox_from_detection = <<1, 1, PipeW, PipeH>>
    /\ args.segmentation_mask = FilledMask(1, 2, 1, 1, "uint8", 255)
    /\ Extent(PipeNailSet) = <<0, 0, 1, 2>>
    /\ ret.val.nail_bbox = <<1, 1, PipeW - 1, PipeH - 1>>
    /\ ret.val.grid_coordinates[grid_rows][grid_cols][2] = <<PipeW, PipeH>>

InRange(num, lo, hi) == IsFinite(num) /\ Le(IntNum(lo), num) /\ Le(num, IntNum(hi))

\* C17: a record returned by process_nail_for_grading has exactly the six
\* fields osi_score, grid_analysis, grid_visualization,
\* nail_segmentation_visualization, grid_coordinates, nail_bbox (so no
\* "error" field); osi_score and grid_analysis have exactly their fields,
\* each within its range: area_score 0..5, proximity_score 1..5,
\* total_osi_score 0..25, severity one of the four labels, area_percent in
\* [0, 100], proximity_level 1..5, pixel counts >= 0.
C17_RecordShape ==
    PipeReturned =>
        /\ DOMAIN ret.val =
               {"osi_score", "grid_analysis", "grid_visualization",
                "nail_segmentation_visualization", "grid_coordinates",
                "nail_bbox"}
        /\ "error" \notin DOMAIN ret.val
        /\ DOMAIN ret.val.osi_score =
               {"area_score", "proximity_score", "total_osi_score", "severity",
                "area_percent", "proximity_level"}
        /\ DOMAIN ret.val.grid_analysis =
               {"area_percent", "proximity_level", "total_nail_area_px",
                "affected_area_px"}
        /\ ret.val.osi_score.area_score \in 0 .. 5
        /\ ret.val.osi_score.proximity_score \in 1 .. 5
        /\ ret.val.osi_score.total_osi_score \in 0 .. 25
        /\ ret.val.osi_score.severity \in Labels
        /\ InRange(ret.val.osi_score.area_percent, 0, 100)
        /\ ret.val.osi_score.proximity_level \in 1 .. 5
        /\ InRange(ret.val.grid_analysis.area_percent, 0, 100)
        /\ ret.val.grid_analysis.proximity_level \in 1 .. 5
        /\ ret.val.grid_analysis.total_nail_area_px \in Nat
        /\ ret.val.grid_analysis.affected_area_px \in Nat
        /\ Len(ret.val.nail_bbox) = 4

\* A diseased nail: a full record with a positive score.
C17_Witness ==
    /\ PipeReturned
    /\ PipeNailSet = Pixels(args.segmentation_mask)
    /\ args.affected_mask = FilledMask(1, 1, 1, PipeW, "uint8", 255)
    /\ Cardinality(DOMAIN ret.val) = 6
    /\ ret.val.grid_analysis.total_nail_area_px = PipeH * PipeW
    /\ ret.val.osi_score.proximity_score = 5
    /\ ret.val.osi_score.total_osi_score = 10
    /\ ret.val.osi_score.severity = "Moderate"
    /\ ret.val.grid_analysis.affected_area_px = PipeW

\* C19: process_nail_for_grading leaves its inputs unchanged: after the
\* call the image, the nail mask and the affected mask hold the values they
\* held before it, and both returned visualizations have the dimensions of
\* the input image.
C19_InputsUnchanged ==
    [][(pc = "called" /\ fn = "process_nail_for_grading" /\ pc' = "returned") =>
           /\ args' = args
           /\ ret'.exc = "None" =>
                  /\ Height(ret'.val.grid_visualization) =
                         Height(args.cropped_nail_image)
                  /\ Width(ret'.val.grid_visualization) =
                         Width(args.cropped_nail_image)
                  /\ Height(ret'.val.nail_segmentation_visualization) =
                         Height(args.cropped_nail_image)
                  /\ Width(ret'.val.nail_segmentation_visualization) =
                         Width(args.cropped_nail_image)]_vars

\* Grid lines and a highlight were drawn, and the image is still the crop.
C19_Witness ==
    /\ PipeReturned
    /\ args.cropped_nail_image = PipeImage
    /\ PipeAffectedSet # {}
    /\ ret.val.grid_visualization # PipeImage
    /\ ret.val.grid_visualization.rows[1][1] = <<0, 217, 64>>
    /\ ret.val.nail_segmentation_visualization # PipeImage

(***************************************************************************)
(* SpecSession: SessionCalls invocations of get_osi_score and              *)
(* process_nail_for_grading running one after another or interleaved,      *)
(* every one on buffers of its own.  A call keeps what it has computed so  *)
(* far in its local variables; the module and the analyzer (built anew by  *)
(* each call, line 271, its two fields never written after __init__) hold  *)
(* nothing else.  Here pc[c] is the position and the locals of call c,     *)
(* fn[c] the function it runs, args[c] its arguments, ret[c] its result.   *)
(***************************************************************************)
SessionCalls == 2

Calls == 1 .. SessionCalls

\* The locals of a call before any of them is assigned
NoLocals ==
    [area_percent |-> IntNum(0),
     proximity_level |-> 1,
     seg_mask_uint8 |-> ZeroMask("uint8"),
     aff_mask_uint8 |-> ZeroMask("uint8"),
     nail_bbox |-> <<0, 0, 0, 0>>,
     grid |-> create_grid_overlay(0, 0, <<0, 0, 0, 0>>),
     grid_analysis |-> [area_percent |-> IntNum(0), proximity_level |-> 1,
                        total_nail_area_px |-> 0, affected_area_px |-> 0],
     osi_result |-> get_osi_score(IntNum(0), IntNum(1)).val]

\* locals_of handing every call the locals of call 1.
locals_of_shared(frames, call) == frames[1].locals

\* lines 152-212, 255-339: the local variables a call reads are its own
locals_of(frames, call) == frames[call].locals

SessionScoreArgs ==
    {[area_percent |-> IntNum(0), proximity_level |-> IntNum(1)],
     [area_percent |-> IntNum(60), proximity_level |-> IntNum(4)]}

SessionPipeArgs ==
    {[cropped_nail_image |-> PipeImage,
      segmentation_mask |-> FilledMask(1, PipeH, 1, PipeW, "float64", 1),
      affected_mask |-> FilledMask(1, 1, 1, PipeW, "uint8", 255),
      nail_bbox_from_detection |-> None],
     [cropped_nail_image |-> PipeImage,
      segmentation_mask |-> FilledMask(1, 2, 1, 1, "uint8", 255),
      affected_mask |-> ZeroMask("uint8"),
      nail_bbox_from_detection |-> <<1, 1, PipeW, PipeH>>],
     [cropped_nail_image |-> PipeImage,
      segmentation_mask |-> FilledMask(1, PipeH, 1, PipeW, "uint8", 255),
      affected_mask |-> NoneMask,
      nail_bbox_from_detection |-> None],
     [cropped_nail_image |-> PipeImage,
      segmentation_mask |-> FilledMask(1, PipeH, 1, PipeW, "uint8", 255),
      affected_mask |-> FilledMask(PipeH, PipeH, 1, 1, "float64", 1),
      nail_bbox_from_detection |-> <<0, 0, PipeW, PipeH>>]}

InitSession ==
    /\ fn \in [Calls -> {"get_osi_score", "process_nail_for_grading"}]
    /\ args \in [Calls -> SessionScoreArgs \cup SessionPipeArgs]
    /\ \A c \in Calls :
           (fn[c] = "get_osi_score") <=> (args[c] \in SessionScoreArgs)
    /\ pc = [c \in Calls |-> [at |-> "called", locals |-> NoLocals]]
    /\ ret = [c \in Calls |-> Raise("pending")]

\* Call c moves to position at with the locals it has assigned
Advance(c, at, assigned) ==
    /\ pc' = [pc EXCEPT ![c] = [at |-> at, locals |-> assigned]]
    /\ UNCHANGED <<fn, args, ret>>

\* Call c ends with this result
Finish(c, result) ==
    /\ pc' = [pc EXCEPT ![c].at = "returned"]
    /\ ret' = [ret EXCEPT ![c] = result]
    /\ UNCHANGED <<fn, args>>

At(c, f, at) == fn[c] = f /\ pc[c].at = at

\* lines 171-172
Sanitize(c) ==
    /\ At(c, "get_osi_score", "called")
    /\ LET ip == PyInt(args[c].proximity_level)
       IN  IF ip.exc # "None" THEN Finish(c, Raise(ip.exc))
           ELSE Advance(c, "sanitized",
                        [locals_of(pc, c) EXCEPT
                           !.area_percent =
                               sanitize_area_percent(args[c].area_percent),
                           !.proximity_level =
                               sanitize_proximity_level(ip.val)])

\* lines 174-212
Classify(c) ==
    /\ At(c, "get_osi_score", "sanitized")
    /\ LET area_percent == locals_of(pc, c).area_percent
           proximity_level == locals_of(pc, c).proximity_level
           area_score == area_score_of(area_percent)
           total_score == total_score_of(area_score, proximity_level)
       IN  Finish(c, Return([area_score |-> area_score,
                             proximity_score |-> proximity_level,
                             total_osi_score |-> total_score,
                             severity |-> severity_of(total_score),
                             area_percent |-> area_percent,
                             proximity_level |-> proximity_level]))

\* lines 274-282
Normalise(c) ==
    /\ At(c, "process_nail_for_grading", "called")
    /\ LET seg == args[c].segmentation_mask
           aff == args[c].affected_mask
       IN  Advance(c, "normalised",
                   [locals_of(pc, c) EXCEPT
                      !.seg_mask_uint8 =
                          IF seg.dtype # "uint8" THEN to_uint8(seg) ELSE seg,
                      !.aff_mask_uint8 =
                          IF ~IsNone(aff) /\ aff.dtype # "uint8"
                          THEN to_uint8(aff) ELSE aff])

\* lines 285-297
Resolve(c) ==
    /\ At(c, "process_nail_for_grading", "normalised")
    /\ LET resolved == resolve_nail_bbox(args[c].cropped_nail_image,
                                         locals_of(pc, c).seg_mask_uint8,
                                         args[c].nail_bbox_from_detection)
       IN  IF resolved.exc # "None" THEN Finish(c, Raise(resolved.exc))
           ELSE Advance(c, "resolved",
                        [locals_of(pc, c) EXCEPT !.nail_bbox = resolved.val])

\* lines 300-304
Grid(c) ==
    /\ At(c, "process_nail_for_grading", "resolved")
    /\ Advance(c, "gridded",
               [locals_of(pc, c) EXCEPT
                  !.grid = create_grid_overlay(
                               Height(args[c].cropped_nail_image),
                               Width(args[c].cropped_nail_image),
                               locals_of(pc, c).nail_bbox)])

\* line 307
Analyze(c) ==
    /\ At(c, "process_nail_for_grading", "gridded")
    /\ LET grid_analysis ==
               analyze_grid_cells(locals_of(pc, c).seg_mask_uint8,
                                  locals_of(pc, c).aff_mask_uint8,
                                  locals_of(pc, c).grid)
       IN  IF grid_analysis.exc # "None" THEN Finish(c, Raise(grid_analysis.exc))
           ELSE Advance(c, "analyzed",
                        [locals_of(pc, c) EXCEPT
                           !.grid_analysis = grid_analysis.val])

\* lines 310-313
Score(c) ==
    /\ At(c, "process_nail_for_grading", "analyzed")
    /\ LET osi_result ==
               get_osi_score(
                   locals_of(pc, c).grid_analysis.area_percent,
                   IntNum(locals_of(pc, c).grid_analysis.proximity_level))
       IN  IF osi_result.exc # "None" THEN Finish(c, Raise(osi_result.exc))
           ELSE Advance(c, "scored",
                        [locals_of(pc, c) EXCEPT !.osi_result = osi_result.val])

\* lines 316-339
Draw(c) ==
    /\ At(c, "process_nail_for_grading", "scored")
    /\ LET heap == [b \in Buffers |->
                      CASE b = "cropped_nail_image" -> args[c].cropped_nail_image
                        [] b = "aff_mask_uint8" -> locals_of(pc, c).aff_mask_uint8
                        [] OTHER -> Unallocated]
           arg == ndarray_copy(heap, "cropped_nail_image", "image_copy")
           drawn == draw_grid_on_image(arg.heap, arg.ref, locals_of(pc, c).grid,
                                       "aff_mask_uint8")
           nail_segmentation_viz == drawn.heap["cropped_nail_image"]
           nail_overlay == overlay_of(nail_segmentation_viz,
                                      locals_of(pc, c).seg_mask_uint8,
                                      <<255, 255, 255>>)
       IN  Finish(c, Return(grading_record(
                                locals_of(pc, c).osi_result,
                                locals_of(pc, c).grid_analysis,
                                drawn.out,
                                addWeighted(nail_segmentation_viz, 70,
                                            nail_overlay, 30),
                                locals_of(pc, c).grid,
                                locals_of(pc, c).nail_bbox)))

NextSession ==
    \E c \in Calls :
        \/ Sanitize(c)
        \/ Classify(c)
        \/ Normalise(c)
        \/ Resolve(c)
        \/ Grid(c)
        \/ Analyze(c)
        \/ Score(c)
        \/ Draw(c)

SpecSession == InitSession /\ [][NextSession]_vars

\* What a call of f on arguments a gives when it runs alone
ResultAlone(f, a) ==
    IF f = "get_osi_score"
    THEN get_osi_score(a.area_percent, a.proximity_level)
    ELSE LET done == process_nail_for_grading(a.cropped_nail_image,
                                              a.segmentation_mask,
                                              a.affected_mask,
                                              a.nail_bbox_from_detection)
         IN  [exc |-> done.exc, val |-> done.val]

\* C18: no state is kept between calls: in every sequence or interleaving
\* of get_osi_score / process_nail_for_grading calls on independent
\* buffers, a finished call's result is the one its arguments give when the
\* call runs alone, so two finished calls with the same arguments have the
\* same result, whatever ran before or in between.
C18_Stateless ==
    \A c \in Calls :
        pc[c].at = "returned" =>
            /\ ret[c] = ResultAlone(fn[c], args[c])
            /\ \A d \in Calls :
                   (pc[d].at = "returned" /\ fn[d] = fn[c] /\ args[d] = args[c])
                       => ret[d] = ret[c]

\* Call 2 has finished a grading while call 1, on other arguments, is in
\* the middle of its own.
C18_Witness ==
    /\ fn[1] = "process_nail_for_grading"
    /\ fn[2] = "process_nail_for_grading"
    /\ args[1] # args[2]
    /\ pc[1].at = "resolved"
    /\ pc[2].at = "returned"
    /\ ret[2].exc = "None"
    /\ ret[2].val.nail_bbox # pc[1].locals.nail_bbox
    /\ ret[2].val.osi_score.total_osi_score > 0

\* The corner (x, y) lies in the frame [0, width] x [0, height] of the image
InFrame(corner, image) ==
    /\ 0 <= corner[1] /\ corner[1] <= Width(image)
    /\ 0 <= corner[2] /\ corner[2] <= Height(image)

\* C21: frame bounds: every cell of the grid returned by
\* process_nail_for_grading lies inside the image frame
\* [0, width] x [0, height], however the bounding box was resolved, an
\* externally supplied box included.
C21_GridInFrame ==
    PipeReturned =>
        \A row \in 1 .. grid_rows, col \in 1 .. grid_cols :
            /\ InFrame(ret.val.grid_coordinates[row][col][1],
                       args.cropped_nail_image)
            /\ InFrame(ret.val.grid_coordinates[row][col][2],
                       args.cropped_nail_image)

\* lines 274-282: a mask as process_nail_for_grading hands it on
Normalised(mask) ==
    IF ~IsNone(mask) /\ mask.dtype # "uint8" THEN to_uint8(mask) ELSE mask

\* The analysis of the call's masks made with no grid at all
GridlessAnalysis ==
    analyze_grid_cells(Normalised(args.segmentation_mask),
                       Normalised(args.affected_mask), <<>>)

\* C22: the grid and the bounding box do not influence scoring: the record
\* process_nail_for_grading returns carries the grid_analysis that
\* analyze_grid_cells gives for the same masks with any other grid (here
\* the empty one) and the osi_score of that analysis, so both are the same
\* with or without an external box and whatever its value.
C22_GridDoesNotScore ==
    PipeReturned =>
        /\ GridlessAnalysis.exc = "None"
        /\ ret.val.grid_analysis = GridlessAnalysis.val
        /\ ret.val.osi_score =
               get_osi_score(GridlessAnalysis.val.area_percent,
                             IntNum(GridlessAnalysis.val.proximity_level)).val
        /\ ret.val.grid_analysis =
               analyze_grid_cells(Normalised(args.segmentation_mask),
                                  Normalised(args.affected_mask),
                                  create_grid_overlay(PipeH, PipeW,
                                                      <<1, 1, 1, 1>>)).val

\* A diseased nail graded over a box larger than the frame
C22_Witness ==
    /\ PipeReturned
    /\ args.nail_bbox_from_detection = <<0, 0, PipeW + 2, PipeH + 2>>
    /\ ret.val.nail_bbox = <<0, 0, PipeW + 2, PipeH + 2>>
    /\ args.segmentation_mask = FilledMask(1, 2, 1, 1, "uint8", 255)
    /\ args.affected_mask = FilledMask(2, 2, 1, 1, "float64", 1)
    /\ ret.val.grid_analysis.total_nail_area_px = 2
    /\ ret.val.grid_analysis.affected_area_px = 1
    /\ ret.val.osi_score.area_score = 3

\* The mask marking the same pixels with value 255 in uint8
As255(mask) ==
    IF IsNone(mask) THEN mask
    ELSE [dtype |-> "uint8",
          rows |-> [r \in 1 .. Height(mask) |->
                      [c \in 1 .. Width(mask) |->
                         IF mask.rows[r][c] # 0 THEN 255 ELSE 0]]]

Black(image) == overlay_of(image, ZeroMask("uint8"), <<0, 0, 0>>)

\* The pixels of a visualization that differ from the blend of its base
\* image with an overlay holding no highlight
Highlighted(visualization, base, alpha, beta) ==
    {q \in Pixels(base) :
         visualization.rows[q[1]][q[2]]
             # addWeighted(base, alpha, Black(base), beta).rows[q[1]][q[2]]}

HighlightedAffected(record, image) ==
    Highlighted(record.grid_visualization,
                draw_cells(image, record.grid_coordinates), 85, 25)

HighlightedNail(record, image) ==
    Highlighted(record.nail_segmentation_visualization, image, 70, 30)

\* The call's outcome had its masks marked their pixels with 255 in uint8
TwinOf255 ==
    process_nail_for_grading(args.cropped_nail_image,
                             As255(args.segmentation_mask),
                             As255(args.affected_mask),
                             args.nail_bbox_from_detection)

\* C23: mask representation independence: a mask whose set pixels have
\* value 1 (boolean, float or 8-bit) and the mask marking the same pixels
\* with 255 give the same result from process_nail_for_grading: the same
\* grid_analysis, osi_score and nail_bbox, and the same highlighted pixels
\* in grid_visualization and nail_segmentation_visualization.
C23_MaskRepresentation ==
    PipeReturned =>
        /\ TwinOf255.exc = "None"
        /\ ret.val.grid_analysis = TwinOf255.val.grid_analysis
        /\ ret.val.osi_score = TwinOf255.val.osi_score
        /\ ret.val.nail_bbox = TwinOf255.val.nail_bbox
        /\ HighlightedAffected(ret.val, args.cropped_nail_image)
               = HighlightedAffected(TwinOf255.val, args.cropped_nail_image)
        /\ HighlightedNail(ret.val, args.cropped_nail_image)
               = HighlightedNail(TwinOf255.val, args.cropped_nail_image)

\* 0.01 * (alpha * original + beta * highlight), rounded, saturated at 255
Blend(original, alpha, highlight, beta) ==
    [ch \in 1 .. 3 |->
       IntMin(255, RoundHalfEven(alpha * original[ch] + beta * highlight[ch], 100))]

OnGridLine(q, grid) ==
    \E row \in 1 .. grid_rows, col \in 1 .. grid_cols : OnOutline(q, grid[row][col])

\* C24: the highlight overlays touch only masked pixels: in
\* grid_visualization a pixel neither on a grid line nor set in the
\* affected mask equals the original pixel, and in
\* nail_segmentation_visualization a pixel not set in the nail mask equals
\* the original pixel; a masked pixel gets 0.85 * original + 0.25 *
\* highlight (0.7 * original + 0.3 * highlight for the nail), per channel,
\* saturated at 255.
C24_OnlyMaskedPixelsChange ==
    PipeReturned =>
        \A q \in Pixels(args.cropped_nail_image) :
            LET original == args.cropped_nail_image.rows[q[1]][q[2]]
                drawn == draw_cells(args.cropped_nail_image,
                                    ret.val.grid_coordinates).rows[q[1]][q[2]]
            IN  /\ (q \notin PipeAffectedSet
                        /\ ~OnGridLine(q, ret.val.grid_coordinates)) =>
                       ret.val.grid_visualization.rows[q[1]][q[2]] = original
                /\ q \in PipeAffectedSet =>
                       ret.val.grid_visualization.rows[q[1]][q[2]]
                           = Blend(drawn, 85, <<0, 0, 255>>, 25)
                /\ q \notin PipeNailSet =>
                       ret.val.nail_segmentation_visualization.rows[q[1]][q[2]]
                           = original
                /\ q \in PipeNailSet =>
                       ret.val.nail_segmentation_visualization.rows[q[1]][q[2]]
                           = Blend(original, 70, <<255, 255, 255>>, 30)

(***************************************************************************)
(* SpecContour: one call of detect_nail_contour on a ContourH x ContourW   *)
(* mask holding up to two filled rectangles.                               *)
(***************************************************************************)
ContourH == 4
ContourW == 4

ContourRects ==
    {b \in (1 .. ContourH) \X (1 .. ContourH) \X (1 .. ContourW) \X (1 .. ContourW) :
         b[1] <= b[2] /\ b[3] <= b[4]}

\* The mask of value v on the rectangles (r1, r2, c1, c2) of rects
RectsMask(rects, dtype, v) ==
    [dtype |-> dtype,
     rows |-> [r \in 1 .. ContourH |->
                 [c \in 1 .. ContourW |->
                    IF \E b \in rects : b[1] <= r /\ r <= b[2] /\ b[3] <= c /\ c <= b[4]
                    THEN v ELSE 0]]]

\* 0/255 masks of one or two rectangles; one rectangle in the other
\* representations a mask comes in, a value that astype(np.uint8) wraps to
\* 0 among them; the all-zero mask
ContourMasks ==
    {RectsMask({a, b}, "uint8", 255) : a \in ContourRects, b \in ContourRects}
    \cup {RectsMask({a}, k[1], k[2]) :
              a \in ContourRects,
              k \in {<<"uint8", 1>>, <<"bool", 1>>, <<"float64", 1>>,
                     <<"int32", 2>>, <<"int32", 256>>}}
    \cup {RectsMask({}, "uint8", 0)}

InitContour ==
    /\ pc = "called"
    /\ fn = "detect_nail_contour"
    /\ args \in [segmentation_mask : ContourMasks]
    /\ ret = Raise("pending")

DetectNailContour ==
    /\ pc = "called"
    /\ fn = "detect_nail_contour"
    /\ ret' = detect_nail_contour(args.segmentation_mask)
    /\ pc' = "returned"
    /\ UNCHANGED <<fn, args>>

NextContour == DetectNailContour

SpecContour == InitContour /\ [][NextContour]_vars

ContourDone == pc = "returned" /\ fn = "detect_nail_contour"

\* The set pixels of the call's mask once binarized
BinarizedSet == NonZero(to_uint8(args.segmentation_mask))

\* The area enclosed by the contour of a region filling its extent
EnclosedArea(region) == (Extent(region)[3] - 1) * (Extent(region)[4] - 1)

\* C25: detect_nail_contour returns (None, None) exactly when the binarized
\* mask has no set pixel; otherwise it returns the bounding rectangle
\* (x, y, w, h) of a connected region (8-connectivity) whose contour
\* encloses the largest area, with w, h >= 1 and the rectangle inside the mask frame; the other
\* regions do not enlarge the box.
C25_LargestContourBox ==
    ContourDone =>
        /\ ret.exc = "None"
        /\ (ret.val[2] = None) <=> (BinarizedSet = {})
        /\ BinarizedSet = {} => ret.val = <<None, None>>
        /\ BinarizedSet # {} =>
               \E regions \in {Components(BinarizedSet)} :
                   \E region \in {ret.val[1]} : \E box \in {ret.val[2]} :
                       /\ region \in regions
                       /\ box = Extent(region)
                       /\ box[3] >= 1 /\ box[4] >= 1
                       /\ 0 <= box[1] /\ box[1] + box[3] <= ContourW
                       /\ 0 <= box[2] /\ box[2] + box[4] <= ContourH
                       /\ \A other \in regions :
                              EnclosedArea(other) <= EnclosedArea(region)

\* A 2 x 2 block and a lone pixel away from it: the box is the block's.
C25_Witness ==
    /\ ContourDone
    /\ BinarizedSet = {<<1, 1>>, <<1, 2>>, <<2, 1>>, <<2, 2>>, <<ContourH, ContourW>>}
    /\ ret.val[2] = <<0, 0, 2, 2>>

(***************************************************************************)
(* SpecGrade: the analysis and scoring steps of process_nail_for_grading   *)
(* (lines 307-313) on a nail mask and an affected mask, then on the same   *)
(* nail mask with an affected mask that starts at the same pixel and holds *)
(* more set pixels.                                                        *)
(***************************************************************************)
\* lines 310-313
osi_result_of(grid_analysis) ==
    IF grid_analysis.exc # "None" THEN grid_analysis
    ELSE get_osi_score(grid_analysis.val.area_percent,
                       IntNum(grid_analysis.val.proximity_level))

\* lines 307-313
grade_of(seg_mask_uint8, aff_mask_uint8, grid) ==
    osi_result_of(analyze_grid_cells(seg_mask_uint8, aff_mask_uint8, grid))

\* Nail masks of 1 .. MaskH * MaskW set pixels
GradeNailMasks ==
    {RunMask(MaskH, MaskW, 0, n, 255) : n \in 1 .. MaskH * MaskW}

\* Affected masks: a run of c >= 0 set pixels from pixel s
GradeAffectedMasks ==
    UNION { {RunMask(MaskH, MaskW, s, c, 255) : c \in 0 .. (MaskH * MaskW - s)}
            : s \in 0 .. MaskH * MaskW - 1 }

\* The affected masks with the first set pixel of mask and more set pixels
\* (any non-empty run when mask has no set pixel)
GrownFrom(mask) ==
    IF SetPixels(mask) = {}
    THEN GradeAffectedMasks \ {mask}
    ELSE LET s == MinOf({(q[1] - 1) * MaskW + (q[2] - 1) : q \in SetPixels(mask)})
         IN {RunMask(MaskH, MaskW, s, c, 255) :
               c \in (Cardinality(SetPixels(mask)) + 1) .. (MaskH * MaskW - s)}

InitGrade ==
    /\ pc = "called"
    /\ fn = "grade"
    /\ args \in [segmentation_mask : GradeNailMasks,
                 affected_mask : GradeAffectedMasks]
    /\ ret = Raise("pending")

Grade ==
    /\ pc = "called"
    /\ fn = "grade"
    /\ ret' = grade_of(args.segmentation_mask, args.affected_mask, <<>>)
    /\ pc' = "returned"
    /\ UNCHANGED <<fn, args>>

GradeGrown ==
    /\ pc = "returned"
    /\ fn = "grade"
    /\ \E more \in GrownFrom(args.affected_mask) :
         /\ args' = [args EXCEPT !.affected_mask = more]
         /\ ret' = grade_of(args.segmentation_mask, more, <<>>)
    /\ UNCHANGED <<pc, fn>>

NextGrade == Grade \/ GradeGrown

SpecGrade == InitGrade /\ [][NextGrade]_vars

\* C26: for a fixed nail mask with N > 0 pixels and a fixed topmost
\* affected row, an affected mask with more set pixels never receives a
\* lower area_score or total_osi_score than one with fewer set pixels.
C26_PipelineMonotone ==
    [][(pc = "returned" /\ fn = "grade" /\ pc' = "returned")
          => /\ ret.exc = "None" /\ ret'.exc = "None"
             /\ ret.val.area_score <= ret'.val.area_score
             /\ ret.val.total_osi_score <= ret'.val.total_osi_score]_vars

Cured == "Clinically Cured / No involvement"

\* C27: process_nail_for_grading reports severity "Clinically Cured / No
\* involvement" (total_osi_score 0) if and only if the affected mask has no
\* set pixel or the nail mask has no set pixel; a nail mask with no set
\* pixel gives total 0 even when the affected mask reaches the top row, and
\* any affected pixel on a non-empty nail gives a total >= 1.
C27_CuredIffNothingAffected ==
    PipeReturned =>
        /\ (ret.val.osi_score.severity = Cured)
               <=> (ret.val.osi_score.total_osi_score = 0)
        /\ (ret.val.osi_score.severity = Cured)
               <=> (PipeAffectedSet = {} \/ PipeNailSet = {})
        /\ (PipeAffectedSet # {} /\ PipeNailSet # {})
               => ret.val.osi_score.total_osi_score >= 1

\* No nail pixel, the affected mask on the top row: level 5 and total 0.
C27_Witness ==
    /\ PipeReturned
    /\ PipeNailSet = {}
    /\ \E p \in PipeAffectedSet : p[1] = 1
    /\ ret.val.grid_analysis.proximity_level = 5
    /\ ret.val.osi_score.total_osi_score = 0
    /\ ret.val.osi_score.severity = Cured

\* C28: in every record returned by process_nail_for_grading the two
\* sub-records agree: osi_score.area_percent equals
\* grid_analysis.area_percent, and osi_score.proximity_level and
\* osi_score.proximity_score equal grid_analysis.proximity_level.
C28_SubRecordsAgree ==
    PipeReturned =>
        /\ ret.val.osi_score.area_percent = ret.val.grid_analysis.area_percent
        /\ ret.val.osi_score.proximity_level = ret.val.grid_analysis.proximity_level
        /\ ret.val.osi_score.proximity_score = ret.val.grid_analysis.proximity_level

\* The whole nail affected from the top row: 100 percent at level 5.
C28_Witness ==
    /\ PipeReturned
    /\ ret.val.grid_analysis.area_percent = IntNum(100)
    /\ ret.val.osi_score.area_percent = IntNum(100)
    /\ ret.val.grid_analysis.proximity_level = 5
    /\ ret.val.osi_score.proximity_score = 5

(***************************************************************************)
(* SpecCaller: one call of ScanPage._calculate_osi_for_nail                *)
(* (ui/scan/scan_page.py, lines 295-350).  foot_name and nail_idx are not  *)
(* read.  The value is the dict returned: the method's body is one try     *)
(* block whose handler returns {"error": str(e)}.                          *)
(***************************************************************************)
\* lines 346-350: except Exception as e: return {"error": str(e)}
error_record(e) == Return([error |-> e])

\* lines 304-320: the record built for a nail with no affected mask
healthy_record(nail_img) ==
    [osi_score |-> [area_score |-> 0,
                    proximity_score |-> 1,
                    total_osi_score |-> 0,
                    severity |-> "Clinically Cured / No involvement",
                    area_percent |-> IntNum(0),
                    proximity_level |-> 1],
     grid_analysis |-> [area_percent |-> IntNum(0),
                        proximity_level |-> 1,
                        total_nail_area_px |-> 0,
                        affected_area_px |-> 0],
     grid_visualization |-> nail_img]

\* line 326: np.ones((h, w), dtype=np.uint8) * 255
np_ones_255(h, w) ==
    [dtype |-> "uint8", rows |-> [r \in 1 .. h |-> [c \in 1 .. w |-> 255]]]

\* lines 337-350: the result of process_nail_for_grading returned as it is,
\* an exception turned into the error record
caller_with_result(done) ==
    IF done.exc # "None" THEN error_record(done.exc) ELSE Return(done.val)

\* lines 295-350
calculate_osi_for_nail(nail_img, nail_mask, affected_mask, nail_bbox) ==
    IF IsNone(affected_mask)
    THEN IF IsNone(nail_img) THEN error_record("AttributeError")
         ELSE Return(healthy_record(nail_img))
    ELSE IF IsNone(nail_mask)
    THEN IF IsNone(nail_img) THEN error_record("AttributeError")
         ELSE caller_with_result(
                  process_nail_for_grading(
                      nail_img, np_ones_255(Height(nail_img), Width(nail_img)),
                      affected_mask, nail_bbox))
    ELSE caller_with_result(
             process_nail_for_grading(nail_img, nail_mask, affected_mask,
                                      nail_bbox))

\* The nail mask and its box as the segmentation gives them (lines 234-245
\* set both or neither), and a mask without a box
CallerNails ==
    {<<NoneMask, None>>}
    \cup (PipeNailMasks \X PipeBoxes)

InitCaller ==
    /\ pc = "called"
    /\ fn = "_calculate_osi_for_nail"
    /\ \E nail \in CallerNails :
         args \in [nail_img : {PipeImage, NoneMask},
                   nail_mask : {nail[1]},
                   affected_mask : PipeAffectedMasks,
                   nail_bbox : {nail[2]}]
    /\ ret = Raise("pending")

CalculateOsiForNail ==
    /\ pc = "called"
    /\ fn = "_calculate_osi_for_nail"
    /\ ret' = calculate_osi_for_nail(args.nail_img, args.nail_mask,
                                     args.affected_mask, args.nail_bbox)
    /\ pc' = "returned"
    /\ UNCHANGED <<fn, args>>

NextCaller == CalculateOsiForNail

SpecCaller == InitCaller /\ [][NextCaller]_vars

CallerDone == pc = "returned" /\ fn = "_calculate_osi_for_nail"

GradingFields ==
    {"osi_score", "grid_analysis", "grid_visualization",
     "nail_segmentation_visualization", "grid_coordinates", "nail_bbox"}

\* The OSIScore ranges
OsiScoreInRange(score) ==
    /\ score.area_score \in 0 .. 5
    /\ score.proximity_score \in 1 .. 5
    /\ score.total_osi_score \in 0 .. 25
    /\ score.severity \in Labels
    /\ InRange(score.area_percent, 0, 100)
    /\ score.proximity_level \in 1 .. 5

\* The call never raises and returns an error record with no osi_score or
\* a record whose osi_score is in the OSIScore ranges; with no affected
\* mask the osi_score is get_osi_score(0, 1).
CallerShapes ==
    CallerDone =>
        /\ ret.exc = "None"
        /\ \/ DOMAIN ret.val = {"error"}
           \/ /\ "error" \notin DOMAIN ret.val
              /\ "osi_score" \in DOMAIN ret.val
              /\ OsiScoreInRange(ret.val.osi_score)
        /\ (IsNone(args.affected_mask) /\ ~IsNone(args.nail_img)) =>
               /\ "osi_score" \in DOMAIN ret.val
               /\ ret.val.osi_score = get_osi_score(IntNum(0), IntNum(1)).val

\* C29: _calculate_osi_for_nail never raises and returns an error record
\* with no osi_score or a grading record whose osi_score is in the OSIScore
\* ranges; for a nail with no affected mask (None) it returns the zero
\* "Clinically Cured / No involvement" result as a full record with the six
\* fields a normal grading returns, osi_score equal to get_osi_score(0, 1).
C29_CallerRecord ==
    CallerDone =>
        /\ ret.exc = "None"
        /\ \/ DOMAIN ret.val = {"error"}
           \/ /\ "error" \notin DOMAIN ret.val
              /\ "osi_score" \in DOMAIN ret.val
              /\ OsiScoreInRange(ret.val.osi_score)
        /\ (IsNone(args.affected_mask) /\ ~IsNone(args.nail_img)) =>
               /\ DOMAIN ret.val = GradingFields
               /\ ret.val.osi_score = get_osi_score(IntNum(0), IntNum(1)).val

====
